---- MODULE Spec2Model ----
(***************************************************************************)
(* A model of app.py, the Streamlit application "NBA Prop Assassin".       *)
(*                                                                         *)
(* Streamlit reruns the whole script on every user interaction; the only   *)
(* state that survives a rerun is st.session_state, the widget values and  *)
(* the memoisation caches of the functions decorated with st.cache_*.      *)
(*                                                                         *)
(* Numbers.  Box-score statistics are integers.  A mean over the window of *)
(* five games has at most one decimal, so means, predictions and betting   *)
(* lines are kept in TENTHS (16.0 is 160).  The raw output of a regression *)
(* model is kept in HUNDREDTHS and rounded to tenths as round(x, 1) does.  *)
(***************************************************************************)
EXTENDS Integers, Sequences, FiniteSets, TLC

\* ------------------------------------------------------------------------
\* Program constants
\* ------------------------------------------------------------------------
Window == 5
HardMax == 10
EasyMin == 20
DefaultRank == 15

needed == {"PTS_L5", "REB_L5", "AST_L5", "MIN_L5", "STL_L5", "BLK_L5"}
targets == {"PTS", "REB", "AST", "STL", "BLK"}

\* feature name -> the game-log column it averages (the dict of lines 144-148)
FeatureSource ==
  [PTS_L5 |-> "PTS", REB_L5 |-> "REB", AST_L5 |-> "AST",
   MIN_L5 |-> "MIN", STL_L5 |-> "STL", BLK_L5 |-> "BLK"]

\* ------------------------------------------------------------------------
\* Bounds of the model
\* ------------------------------------------------------------------------
MaxGames == 6       \* longest game log the provider returns
MaxTeams == 4       \* largest league aggregate whose every ordering is explored
NumTeams == 30      \* teams of the league in the application runs
MaxTenths == 12     \* largest prediction / line (in tenths) of the edge inputs

\* ------------------------------------------------------------------------
\* Generic helpers
\* ------------------------------------------------------------------------
Range(s) == {s[i] : i \in DOMAIN s}

RECURSIVE SumSeq(_)
SumSeq(s) == IF s = <<>> THEN 0 ELSE s[1] + SumSeq(Tail(s))

Min2(a, b) == IF a <= b THEN a ELSE b

\* Python None
None == [tag |-> "None"]

\* A pandas DataFrame is a sequence of rows; each row maps column names to
\* values.  DataFrame() is the frame with no rows.
EmptyFrame == <<>>
Column(df, c) == [i \in 1..Len(df) |-> df[i][c]]

\* df.tail(n)
tail(df, n) == IF Len(df) <= n THEN df ELSE SubSeq(df, Len(df) - n + 1, Len(df))

\* Series.mean() of an integer column, in tenths.  Exact for a window of 5.
mean(s) == (SumSeq(s) * 10) \div Len(s)

\* All index orders that list the rows in nondecreasing key order.
\* DataFrame.sort_values uses kind='quicksort' by default, which is not a
\* stable sort: rows with equal keys may come out in any relative order.
RECURSIVE Orderings(_, _)
Orderings(key, I) ==
  IF I = {} THEN {<<>>}
  ELSE UNION { { <<i>> \o t : t \in Orderings(key, I \ {i}) } :
               i \in {j \in I : \A k \in I : key[j] <= key[k]} }

\* df.sort_values(by): every frame the sort may return
sort_values(df, key) ==
  { [i \in 1..Len(df) |-> df[o[i]]] : o \in Orderings(key, 1..Len(df)) }

\* ------------------------------------------------------------------------
\* The player game log (playergamelog.PlayerGameLog, season 2025-26)
\* ------------------------------------------------------------------------
\* GAME_DATE arrives as text in the form '%b %d, %Y' ("Oct 22, 2025"); it is
\* kept as the three fields of that text.
MonthNumber ==
  [Jan |-> 1, Feb |-> 2, Mar |-> 3, Apr |-> 4, May |-> 5, Jun |-> 6,
   Jul |-> 7, Aug |-> 8, Sep |-> 9, Oct |-> 10, Nov |-> 11, Dec |-> 12]

DateText(b, d, Y) == [b |-> b, d |-> d, Y |-> Y]

Parseable(t) == t.b \in DOMAIN MonthNumber /\ t.d \in 1..31

\* pd.to_datetime(text, format='%b %d, %Y'), as a day count
to_datetime(t) == t.Y * 372 + (MonthNumber[t.b] - 1) * 31 + t.d

\* the upper-cased name of a provider column (Index.str.upper)
UpperTable ==
  [Game_Date |-> "GAME_DATE", Min |-> "MIN", Pts |-> "PTS", Reb |-> "REB",
   Ast |-> "AST", Stl |-> "STL", Blk |-> "BLK"]
upper(c) == IF c \in DOMAIN UpperTable THEN UpperTable[c] ELSE c

\* df.columns = df.columns.str.upper(), on one row
UpperColumns(row) ==
  [c \in {upper(k) : k \in DOMAIN row} |->
     row[CHOOSE k \in DOMAIN row : upper(k) = c]]

SetColumn(row, c, v) == [k \in DOMAIN row \cup {c} |-> IF k = c THEN v ELSE row[k]]

\* get_player_recent_stats(player_id): the frames the call may return for a
\* provider response resp = [ok, rows].  ok = FALSE is an exception raised by
\* the request; any exception inside the try block gives DataFrame().
get_player_recent_stats(resp) ==
  IF ~resp.ok THEN {EmptyFrame}
  ELSE IF resp.rows = <<>> THEN {EmptyFrame}
  ELSE LET df1 == [i \in 1..Len(resp.rows) |-> UpperColumns(resp.rows[i])]
       IN IF \E i \in 1..Len(df1) :
               "GAME_DATE" \notin DOMAIN df1[i] \/ ~Parseable(df1[i]["GAME_DATE"])
          THEN {EmptyFrame}
          ELSE LET df2 == [i \in 1..Len(df1) |->
                             SetColumn(df1[i], "GAME_DATE", to_datetime(df1[i]["GAME_DATE"]))]
               IN sort_values(df2, Column(df2, "GAME_DATE"))

\* ------------------------------------------------------------------------
\* Training and prediction
\* ------------------------------------------------------------------------
\* train_model_from_csv without the check of the feature columns (line 79)
train_model_from_csv_partial_features(csv) ==
  IF ~csv.exists THEN None
  ELSE [tag |-> "dict",
        items |-> [t \in targets \cap csv.columns |-> [target |-> t, n_estimators |-> 50]]]

\* The csv file on disk: [exists, columns].
\* train_model_from_csv(): None, or the dict target -> fitted model.  A fitted
\* RandomForestRegressor is represented by the target it was fitted for.
train_model_from_csv(csv) ==
  IF ~csv.exists THEN None
  ELSE IF ~(\A col \in needed : col \in csv.columns) THEN None
  ELSE [tag |-> "dict",
        items |-> [t \in targets \cap csv.columns |-> [target |-> t, n_estimators |-> 50]]]

\* Python truthiness of the training result: not None and not {}
Truthy(models) == models.tag = "dict" /\ DOMAIN models.items # {}

\* round(x, 1) of a non-negative x given in hundredths: the result in
\* tenths, halves going to the even neighbour.
round1(h) ==
  LET q == h \div 10
      r == h % 10
  IN IF r < 5 THEN q
     ELSE IF r > 5 THEN q + 1
     ELSE IF q % 2 = 0 THEN q ELSE q + 1

\* model.predict(feature_row)[0] in hundredths.  The fitted forest is a
\* library object; it is a fixed function of the feature row, represented
\* here by a blend of the target's own trailing mean and the minutes.
ModelPredict(model, feature_row) ==
  LET own == feature_row[CHOOSE f \in needed : FeatureSource[f] = model.target]
  IN (own * 9) + (feature_row["MIN_L5"] \div 8)

FeatureRow(last_5) == [f \in needed |-> mean(Column(last_5, FeatureSource[f]))]

\* predict with head(5) in place of tail(5)
predict_head(models, recent_stats) ==
  IF Len(recent_stats) < Window THEN None
  ELSE LET last_5 == SubSeq(recent_stats, 1, Window)
           feature_row == FeatureRow(last_5)
       IN [tag |-> "dict", feature_row |-> feature_row,
           items |-> [stat \in DOMAIN models.items |->
                        round1(ModelPredict(models.items[stat], feature_row))]]

\* predict(models, recent_stats): None, or the dict stat -> rounded
\* prediction.  The feature row it builds on the way is kept with the result.
predict(models, recent_stats) ==
  IF Len(recent_stats) < Window THEN None
  ELSE LET last_5 == tail(recent_stats, Window)
           feature_row == FeatureRow(last_5)
       IN [tag |-> "dict", feature_row |-> feature_row,
           items |-> [stat \in DOMAIN models.items |->
                        round1(ModelPredict(models.items[stat], feature_row))]]

\* ------------------------------------------------------------------------
\* Defensive rankings and the matchup badge
\* ------------------------------------------------------------------------
\* the map built by the loop of lines 132-134 over the sorted frame:
\* a later row of the same team overwrites an earlier one
RankMapOf(df) ==
  [t \in {df[i]["TEAM_ID"] : i \in 1..Len(df)} |->
     CHOOSE r \in 1..Len(df) :
       /\ df[r]["TEAM_ID"] = t
       /\ \A q \in 1..Len(df) : df[q]["TEAM_ID"] = t => q <= r]

EmptyMap == [t \in {} |-> 0]

\* get_team_defense_rankings ranking the most points first
get_team_defense_rankings_descending(resp) ==
  IF ~resp.ok THEN {EmptyMap}
  ELSE { RankMapOf(df) :
           df \in sort_values(resp.rows, [i \in 1..Len(resp.rows) |-> 0 - resp.rows[i]["PTS"]]) }

\* get_team_defense_rankings(): the maps {TEAM_ID: rank} the call may return
\* for a provider response resp = [ok, rows]; {} after an exception.
get_team_defense_rankings(resp) ==
  IF ~resp.ok THEN {EmptyMap}
  ELSE { RankMapOf(df) : df \in sort_values(resp.rows, Column(resp.rows, "PTS")) }

\* the badge with both thresholds exclusive
BadgeOfRank_strict(rank) ==
  IF rank < HardMax THEN "matchup-hard"
  ELSE IF rank > EasyMin THEN "matchup-easy"
  ELSE "matchup-mid"

\* the badge of lines 251-259 for a rank
BadgeOfRank(rank) ==
  IF rank <= HardMax THEN "matchup-hard"
  ELSE IF rank >= EasyMin THEN "matchup-easy"
  ELSE "matchup-mid"

\* what lines 227-228 set before the lookup
UnknownMatchup ==
  [opponent_rank_display |-> "Unknown", matchup_color |-> "matchup-mid",
   opp_id |-> <<>>, rank |-> <<>>]

\* lines 226-261.  ptid is <<>> (None) or <<team id>>; board = [ok, games] is
\* the answer of ScoreboardV2 for the selected date.
Matchup(ptid, board, defense_ranks) ==
  IF ~board.ok THEN UnknownMatchup
  ELSE IF ptid = <<>> THEN UnknownMatchup
  ELSE LET games == board.games
           game_row == SelectSeq(games,
                         LAMBDA g : g["HOME_TEAM_ID"] = ptid[1] \/ g["VISITOR_TEAM_ID"] = ptid[1])
       IN IF game_row = <<>> THEN UnknownMatchup
          ELSE LET opp_id == IF game_row[1]["HOME_TEAM_ID"] = ptid[1]
                             THEN game_row[1]["VISITOR_TEAM_ID"]
                             ELSE game_row[1]["HOME_TEAM_ID"]
                   rank == IF opp_id \in DOMAIN defense_ranks
                           THEN defense_ranks[opp_id] ELSE DefaultRank
               IN [opponent_rank_display |-> "vs", matchup_color |-> BadgeOfRank(rank),
                   opp_id |-> <<opp_id>>, rank |-> <<rank>>]

\* ------------------------------------------------------------------------
\* The prop analyzer card
\* ------------------------------------------------------------------------
\* float(int(pred_val)) of a value in tenths: truncation toward zero
DefaultLine(pred_val) ==
  IF pred_val >= 0 THEN (pred_val \div 10) * 10 ELSE 0 - (((0 - pred_val) \div 10) * 10)

\* the badge with the comparison against the line reversed
EdgeBadge_reversed(diff) ==
  IF diff < 0 THEN "badge-over" ELSE IF diff > 0 THEN "badge-under" ELSE "none"

\* lines 298-300: the badge shown for a difference; "none" is no badge
EdgeBadge(diff) ==
  IF diff > 0 THEN "badge-over" ELSE IF diff < 0 THEN "badge-under" ELSE "none"

\* render_card, left column: the card for a prediction and the line in the
\* number input
render_card(pred_val, line) ==
  LET diff == pred_val - line
  IN [pred_val |-> pred_val, line |-> line, diff |-> diff, badge |-> EdgeBadge(diff)]

\* ------------------------------------------------------------------------
\* Inputs: what the outside world may hand to the program
\* ------------------------------------------------------------------------
\* the dates of a player's first games of the 2025-26 season, as the provider
\* writes them
GameDates ==
  << DateText("Oct", 22, 2025), DateText("Nov", 5, 2025), DateText("Dec", 1, 2025),
     DateText("Dec", 28, 2025), DateText("Jan", 3, 2026), DateText("Feb", 10, 2026),
     DateText("Mar", 15, 2026), DateText("Apr", 2, 2026) >>

\* two box scores a player may post in game k
BoxScore(k, b) ==
  IF b = "A"
  THEN [MIN |-> 30 + k, PTS |-> 8 + 2 * k, REB |-> k, AST |-> 12 - k,
        STL |-> k % 3, BLK |-> (k + 1) % 2]
  ELSE [MIN |-> 24, PTS |-> 7, REB |-> 11, AST |-> 2, STL |-> 3, BLK |-> 0]

\* the provider's row for game k, with its column names in capitals or in
\* title case
RawRow(k, b, casing) ==
  LET x == BoxScore(k, b)
  IN IF casing = "upper"
     THEN [GAME_DATE |-> GameDates[k], MIN |-> x.MIN, PTS |-> x.PTS, REB |-> x.REB,
           AST |-> x.AST, STL |-> x.STL, BLK |-> x.BLK]
     ELSE [Game_Date |-> GameDates[k], Min |-> x.MIN, Pts |-> x.PTS, Reb |-> x.REB,
           Ast |-> x.AST, Stl |-> x.STL, Blk |-> x.BLK]

\* orders in which a provider may list n rows: first to last, last to
\* first, and every rotation of first to last
ProviderOrders(n) ==
  { [i \in 1..n |-> n + 1 - i] } \cup
  { [i \in 1..n |-> ((i + r - 1) % n) + 1] : r \in 0..(n - 1) }

FailedResponse == [ok |-> FALSE, rows |-> <<>>]

GameLogs(n, casings) ==
  UNION { UNION { { [ok |-> TRUE,
                     rows |-> [i \in 1..n |-> RawRow(o[i], choice[o[i]], c)]] :
                    o \in ProviderOrders(n) } :
                  choice \in [1..n -> {"A", "B"}] } :
          c \in casings }

\* every answer of PlayerGameLog the function-level specification draws from
LogInputs ==
  {FailedResponse} \cup UNION { GameLogs(n, {"upper", "title"}) : n \in 0..MaxGames }

\* a league aggregate: one row per team
TeamRow(t, pts) == [TEAM_ID |-> t, PTS |-> pts]

PtsValues == {104, 110, 117}

\* every aggregate of up to MaxTeams teams over PtsValues; the rows list the
\* teams in one of the orders of ProviderOrders
LeagueTables ==
  UNION { UNION { { [ok |-> TRUE, rows |-> [i \in 1..n |-> TeamRow(ids[i], pts[i])]] :
                    pts \in [1..n -> PtsValues] } :
                  ids \in ProviderOrders(n) } :
          n \in 0..MaxTeams }

\* Aggregates of the whole league of NumTeams teams.
\* "by id": team t allowed 100 + t points, so its rank is t
\* "reversed": team t allowed 200 - t points, listed from team 1
\* "tied": as "by id", but teams 7 and 8 and teams 20, 21 and 22 are level
FullLeague(kind) ==
  [ok |-> TRUE,
   rows |-> [i \in 1..NumTeams |->
               TeamRow(i, IF kind = "by id" THEN 100 + i
                          ELSE IF kind = "reversed" THEN 200 - i
                          ELSE IF i = 8 THEN 107
                          ELSE IF i \in {21, 22} THEN 120
                          ELSE 100 + i)]]

\* the aggregate "by id" without the row of team t
LeagueWithout(t) ==
  [ok |-> TRUE,
   rows |-> SelectSeq(FullLeague("by id").rows, LAMBDA r : r["TEAM_ID"] # t)]

Game(home, visitor) == [HOME_TEAM_ID |-> home, VISITOR_TEAM_ID |-> visitor]
FailedBoard == [ok |-> FALSE, games |-> <<>>]
Board(games) == [ok |-> TRUE, games |-> games]

\* training files: absent, complete, lacking a feature column, lacking one
\* target, holding a single target, holding no target
Csv(cols) == [exists |-> TRUE, columns |-> cols]
CsvInputs ==
  { [exists |-> FALSE, columns |-> {}],
    Csv(needed \cup targets),
    Csv((needed \ {"MIN_L5"}) \cup targets),
    Csv(needed \cup (targets \ {"BLK"})),
    Csv(needed \cup {"PTS"}),
    Csv(needed) }

\* values, in tenths, offered to the prop analyzer card
EdgeValues == (0..MaxTenths) \cup {31, 45, 60, 225, 243}

\* ------------------------------------------------------------------------
\* State
\* ------------------------------------------------------------------------
VARIABLES
  models_cache,        \* st.cache_resource of train_model_from_csv: <<>> or <<value>>
  trained_from,        \* <<>> or <<the csv read by the last execution of its body>>
  train_calls,         \* executions of the body of train_model_from_csv
  ranks_cache,         \* st.cache_data of get_team_defense_rankings: <<>> or <<map>>
  ranked_from,         \* <<>> or <<the provider answer of the last execution>>
  rank_calls,          \* executions of the body of get_team_defense_rankings
  stats_cache,         \* st.cache_data of get_player_recent_stats, per player id
  fetched,             \* per player id: <<>> or <<the provider answer it was built from>>
  roster_cache,        \* st.cache_data of get_roster, per team id
  session_state,       \* st.session_state: selected_player_id, selected_player_team_id
  selected_team_name,  \* the sidebar selectbox: <<>> ("None") or <<team id>>
  selected_date,       \* the sidebar date input
  line_input,          \* the number inputs of the cards: stat -> <<>> or <<line>>
  page,                \* what the last run of the script rendered
  call                 \* the last direct call of a function of the module

vars == << models_cache, trained_from, train_calls, ranks_cache, ranked_from,
           rank_calls, stats_cache, fetched, roster_cache, session_state,
           selected_team_name, selected_date, line_input, page, call >>

appvars == << models_cache, trained_from, train_calls, ranks_cache, ranked_from,
              rank_calls, stats_cache, fetched, roster_cache, session_state,
              selected_team_name, selected_date, line_input, page >>

\* the player and the team the user picks
Players == {101}
UserTeams == {1}
Roster(t) == << [PLAYER_ID |-> 101] >>
Dates == {"2026-01-03", "2026-01-04"}

NoCall == [fn |-> "none"]
InitPage == [view |-> "init"]

\* the process has started and no browser has connected yet
Init ==
  /\ models_cache = <<>>
  /\ trained_from = <<>>
  /\ train_calls = 0
  /\ ranks_cache = <<>>
  /\ ranked_from = <<>>
  /\ rank_calls = 0
  /\ stats_cache = [p \in Players |-> <<>>]
  /\ fetched = [p \in Players |-> <<>>]
  /\ roster_cache = [t \in UserTeams |-> <<>>]
  /\ session_state = [selected_player_id |-> <<>>, selected_player_team_id |-> <<>>]
  /\ selected_team_name = <<>>
  /\ selected_date = "2026-01-03"
  /\ line_input = [s \in targets |-> <<>>]
  /\ page = InitPage
  /\ call = NoCall

\* ------------------------------------------------------------------------
\* The functions of the module, called directly
\* ------------------------------------------------------------------------
\* Each behaviour is one call from the fresh process, or one call followed by
\* the call that consumes its result.
\* model sets that pass the guard of lines 155-158
ModelSets == { train_model_from_csv(csv) : csv \in {c \in CsvInputs : Truthy(train_model_from_csv(c))} }

CallGetPlayerRecentStats ==
  /\ call.fn = "none"
  /\ \E resp \in LogInputs : \E df \in get_player_recent_stats(resp) :
       call' = [fn |-> "get_player_recent_stats", resp |-> resp, df |-> df]
  /\ UNCHANGED appvars

CallPredict ==
  /\ call.fn = "get_player_recent_stats"
  /\ \E models \in ModelSets :
       call' = [fn |-> "predict", resp |-> call.resp, models |-> models,
                recent_stats |-> call.df, result |-> predict(models, call.df)]
  /\ UNCHANGED appvars

CallGetTeamDefenseRankings ==
  /\ call.fn = "none"
  /\ \E resp \in LeagueTables \cup
                 {[ok |-> FALSE, rows |-> <<>>], FullLeague("by id"), FullLeague("reversed"),
                  FullLeague("tied"), LeagueWithout(2)} :
       \E rank_map \in get_team_defense_rankings(resp) :
         call' = [fn |-> "get_team_defense_rankings", resp |-> resp, rank_map |-> rank_map]
  /\ UNCHANGED appvars

\* the opponent lookup of the main page against the table of the last call
CallMatchup ==
  /\ call.fn = "get_team_defense_rankings"
  /\ Len(call.resp.rows) + 4 >= NumTeams \/ ~call.resp.ok
  /\ \E ptid \in {<<>>} \cup {<<t>> : t \in UserTeams} :
       \E board \in {FailedBoard, Board(<<>>), Board(<<Game(3, 4)>>)} \cup
                    { Board(<<Game(ptid[1], o)>>) : o \in IF ptid = <<>> THEN {} ELSE 2..NumTeams } \cup
                    { Board(<<Game(5, 6), Game(o, ptid[1])>>) : o \in IF ptid = <<>> THEN {} ELSE 2..NumTeams } :
         call' = [fn |-> "matchup", ptid |-> ptid, board |-> board,
                  defense_ranks |-> call.rank_map,
                  result |-> Matchup(ptid, board, call.rank_map)]
  /\ UNCHANGED appvars

CallRenderCard ==
  /\ call.fn = "none"
  /\ \E pred_val \in EdgeValues : \E line \in EdgeValues :
       call' = [fn |-> "render_card", result |-> render_card(pred_val, line)]
  /\ UNCHANGED appvars

NextCalls ==
  \/ CallGetPlayerRecentStats
  \/ CallPredict
  \/ CallGetTeamDefenseRankings
  \/ CallMatchup
  \/ CallRenderCard

SpecCalls == Init /\ [][NextCalls]_vars

\* ------------------------------------------------------------------------
\* The application: one run of the script per user interaction
\* ------------------------------------------------------------------------
\* the counters of executions stop counting at CallCap
CallCap == 2

\* a memoisation that never finds its entry
cache_resource_hit_never(cache) == FALSE

\* st.cache_resource: an entry for the (argument-less) call exists, so the
\* body is not executed
cache_resource_hit(cache) == cache # <<>>

\* st.cache_data: an entry for the call's arguments exists
cache_data_hit(cache) == cache # <<>>

\* get_roster(team_id): the roster frame, or DataFrame() after an exception
get_roster(team_id, ok) == IF ok THEN Roster(team_id) ELSE EmptyFrame

\* players.get_active_players() and str.lower on the names involved
ActivePlayers == { [id |-> 101, full_name |-> "Luka Doncic"] }
lower(text) == IF text \in {"Luka Doncic", "LUKA DONCIC"} THEN "luka doncic" ELSE text
SearchInputs == {"", "LUKA DONCIC", "nobody"}

\* answers of the providers to the application
NoAnswer == [ok |-> FALSE, rows |-> <<>>]
NewestFirst(n) == [ok |-> TRUE, rows |-> [i \in 1..n |-> RawRow(n + 1 - i, "A", "upper")]]
AppLogInputs == {NoAnswer} \cup {NewestFirst(n) : n \in {0} \cup ((Window - 1)..MaxGames)}
AppLeagueInputs == {NoAnswer, FullLeague("by id"), FullLeague("reversed"), LeagueWithout(2)}
Opponents == {2, 15, 25}
AppBoardInputs(ptid) ==
  {FailedBoard, Board(<<>>), Board(<<Game(3, 4)>>)} \cup
  (IF ptid = <<>> THEN {}
   ELSE { Board(<<Game(ptid[1], o)>>) : o \in Opponents } \cup
        { Board(<<Game(3, 4), Game(o, ptid[1])>>) : o \in Opponents })
LineInputs == {50, 165}
EditableStats == {"PTS"}

\* the tabs, in the order lines 311-315 render them
TabOrder == <<"PTS", "REB", "AST", "STL", "BLK">>

NoLines == [s \in targets |-> <<>>]
NoSelection == [selected_player_id |-> <<>>, selected_player_team_id |-> <<>>]

StoppedPage == [view |-> "stopped"]
HomePage == [view |-> "home"]
WarningPage == [view |-> "warning"]

\* lines 220-315, after predict returned preds: the page, with the cards
\* rendered before a missing key ends the run
PlayerPage(preds, ptid, board, defense_ranks, lines) ==
  LET held == IF preds.tag = "dict" THEN DOMAIN preds.items ELSE {}
      missing == {i \in 1..Len(TabOrder) : TabOrder[i] \notin held}
      stop == IF missing = {} THEN Len(TabOrder) + 1
              ELSE CHOOSE i \in missing : \A j \in missing : i <= j
      shown == {TabOrder[i] : i \in 1..(stop - 1)}
  IN [view |-> "player",
      preds |-> preds,
      board |-> board,
      matchup |-> Matchup(ptid, board, defense_ranks),
      cards |-> [st \in shown |->
                   render_card(preds.items[st],
                               IF lines[st] = <<>> THEN DefaultLine(preds.items[st])
                               ELSE lines[st][1])],
      error |-> IF missing = {} THEN "none"
                ELSE IF preds.tag = "dict" THEN "KeyError" ELSE "TypeError"]

\* the gate of line 217 with the window one game short
EnoughGames_off_by_one(recent_df) == recent_df # EmptyFrame /\ Len(recent_df) >= Window - 1

\* line 217: not recent_df.empty and len(recent_df) >= 5
EnoughGames(recent_df) == recent_df # EmptyFrame /\ Len(recent_df) >= 5

\* lines 210-318: the main page for the selection ss, the widget values
\* lines and the answers the providers give during this run
MainPage(models, defense_ranks, ss, lines) ==
  IF ss.selected_player_id = <<>>
  THEN /\ page' = HomePage
       /\ line_input' = NoLines
       /\ UNCHANGED <<stats_cache, fetched>>
  ELSE LET pid == ss.selected_player_id[1]
           hit == cache_data_hit(stats_cache[pid])
       IN \E resp \in (IF hit THEN {NoAnswer} ELSE AppLogInputs) :
          \E fresh \in (IF hit THEN {EmptyFrame} ELSE get_player_recent_stats(resp)) :
            LET recent_df == IF hit THEN stats_cache[pid][1] ELSE fresh
            IN /\ stats_cache' = [stats_cache EXCEPT ![pid] = <<recent_df>>]
               /\ fetched' = IF hit THEN fetched ELSE [fetched EXCEPT ![pid] = <<resp>>]
               /\ IF EnoughGames(recent_df)
                  THEN \E board \in AppBoardInputs(ss.selected_player_team_id) :
                       \E preds \in {predict(models, recent_df)} :
                       \E pg \in {PlayerPage(preds, ss.selected_player_team_id,
                                              board, defense_ranks, lines)} :
                            /\ page' = pg
                            /\ line_input' = [st \in targets |->
                                                IF st \in DOMAIN pg.cards THEN lines[st] ELSE <<>>]
                  ELSE /\ page' = WarningPage
                       /\ line_input' = NoLines

\* lines 160-208: the sidebar and the manual search, then the main page
Body(ev, models, ss0, team0, date0, lines0) ==
  LET rhit == cache_data_hit(ranks_cache)
      date1 == IF ev.type = "date" THEN ev.date ELSE date0
      team1 == IF ev.type = "team" THEN ev.team ELSE team0
      thit == team1 = <<>> \/ cache_data_hit(roster_cache[team1[1]])
  IN \E league \in (IF rhit THEN {NoAnswer} ELSE AppLeagueInputs) :
     \E fresh_ranks \in (IF rhit THEN {EmptyMap} ELSE get_team_defense_rankings(league)) :
     \E roster_ok \in (IF thit THEN {TRUE} ELSE {TRUE, FALSE}) :
       LET defense_ranks == IF rhit THEN ranks_cache[1] ELSE fresh_ranks
           roster_df == IF team1 = <<>> THEN EmptyFrame
                        ELSE IF thit THEN roster_cache[team1[1]][1]
                        ELSE get_roster(team1[1], roster_ok)
           ss1 == IF ev.type = "click" /\ \E r \in Range(roster_df) : r["PLAYER_ID"] = ev.player
                  THEN [selected_player_id |-> <<ev.player>>, selected_player_team_id |-> team1]
                  ELSE ss0
           found == {pl \in ActivePlayers :
                       ev.type = "search" /\ ev.text # "" /\ lower(pl.full_name) = lower(ev.text)}
           ss2 == IF found # {}
                  THEN [selected_player_id |-> <<(CHOOSE pl \in found : TRUE).id>>,
                        selected_player_team_id |-> <<>>]
                  ELSE ss1
           lines1 == IF ss2.selected_player_id # ss0.selected_player_id THEN NoLines
                     ELSE IF ev.type = "line" THEN [lines0 EXCEPT ![ev.stat] = <<ev.value>>]
                     ELSE lines0
       IN /\ ranks_cache' = <<defense_ranks>>
          /\ ranked_from' = IF rhit THEN ranked_from ELSE <<league>>
          /\ rank_calls' = IF rhit THEN rank_calls ELSE Min2(rank_calls + 1, CallCap)
          /\ roster_cache' = IF team1 = <<>> THEN roster_cache
                             ELSE [roster_cache EXCEPT ![team1[1]] = <<roster_df>>]
          /\ selected_date' = date1
          /\ selected_team_name' = team1
          /\ session_state' = ss2
          /\ MainPage(models, defense_ranks, ss2, lines1)

\* one run of the script, lines 155-318, for the event ev, from the session
\* state ss0 and the widget values team0, date0, lines0
Run(ev, ss0, team0, date0, lines0) ==
  LET mhit == cache_resource_hit(models_cache)
  IN \E csv \in (IF mhit THEN {[exists |-> FALSE, columns |-> {}]} ELSE CsvInputs) :
       LET models == IF mhit THEN models_cache[1] ELSE train_model_from_csv(csv)
       IN /\ models_cache' = <<models>>
          /\ trained_from' = IF mhit THEN trained_from ELSE <<csv>>
          /\ train_calls' = IF mhit THEN train_calls ELSE Min2(train_calls + 1, CallCap)
          /\ IF ~Truthy(models)
             THEN /\ page' = StoppedPage
                  /\ session_state' = ss0
                  /\ selected_team_name' = <<>>
                  /\ selected_date' = date0
                  /\ line_input' = NoLines
                  /\ UNCHANGED <<ranks_cache, ranked_from, rank_calls, stats_cache,
                                 fetched, roster_cache>>
             ELSE Body(ev, models, ss0, team0, date0, lines0)

SidebarShown == page.view \in {"home", "warning", "player"}

\* a browser opens (or reloads) the page: a new session, the caches stay
Connect ==
  /\ Run([type |-> "load"], NoSelection, <<>>, "2026-01-03", NoLines)
  /\ UNCHANGED call

\* the user picks a team (or "None") in the sidebar selectbox
SelectTeam ==
  /\ SidebarShown
  /\ \E t \in {<<>>} \cup {<<u>> : u \in UserTeams} :
       /\ t # selected_team_name
       /\ Run([type |-> "team", team |-> t], session_state, selected_team_name,
              selected_date, line_input)
  /\ UNCHANGED call

\* the user clicks a player button of the roster shown in the sidebar
ClickRoster ==
  /\ SidebarShown
  /\ selected_team_name # <<>>
  /\ \E r \in Range(roster_cache[selected_team_name[1]][1]) :
       Run([type |-> "click", player |-> r["PLAYER_ID"]], session_state,
           selected_team_name, selected_date, line_input)
  /\ UNCHANGED call

\* the user presses Search with some text in the search box
ManualSearch ==
  /\ SidebarShown
  /\ \E text \in SearchInputs :
       Run([type |-> "search", text |-> text], session_state, selected_team_name,
           selected_date, line_input)
  /\ UNCHANGED call

\* the user picks another game date
ChangeDate ==
  /\ SidebarShown
  /\ \E d \in Dates :
       /\ d # selected_date
       /\ Run([type |-> "date", date |-> d], session_state, selected_team_name,
              selected_date, line_input)
  /\ UNCHANGED call

\* the user types a line into the number input of a card
ChangeLine ==
  /\ page.view = "player"
  /\ \E st \in EditableStats \cap DOMAIN page.cards : \E v \in LineInputs :
       Run([type |-> "line", stat |-> st, value |-> v], session_state,
           selected_team_name, selected_date, line_input)
  /\ UNCHANGED call

Next ==
  \/ Connect
  \/ SelectTeam
  \/ ClickRoster
  \/ ManualSearch
  \/ ChangeDate
  \/ ChangeLine

Spec == Init /\ [][Next]_vars

\* ------------------------------------------------------------------------
\* Properties of the functions
\* ------------------------------------------------------------------------
\* a provider row read by its upper-cased column name
Field(row, c) == UpperColumns(row)[c]

\* calendar order of two dates as the provider writes them
Earlier(a, b) ==
  \/ a.Y < b.Y
  \/ a.Y = b.Y /\ MonthNumber[a.b] < MonthNumber[b.b]
  \/ a.Y = b.Y /\ MonthNumber[a.b] = MonthNumber[b.b] /\ a.d < b.d

\* the positions, in the provider's answer, of the five most recent games
LatestFive(rows) ==
  { i \in 1..Len(rows) :
      Cardinality({ j \in 1..Len(rows) :
                      Earlier(Field(rows[i], "GAME_DATE"), Field(rows[j], "GAME_DATE")) }) < 5 }

RECURSIVE SumOver(_, _, _)
SumOver(rows, I, c) ==
  IF I = {} THEN 0
  ELSE LET i == CHOOSE x \in I : TRUE
       IN Field(rows[i], c) + SumOver(rows, I \ {i}, c)

RECURSIVE Perms(_)
Perms(S) ==
  IF S = {} THEN {<<>>}
  ELSE UNION { { <<x>> \o p : p \in Perms(S \ {x}) } : x \in S }

\* the game log with the records before its last five in another order
PrefixPermutations(df) ==
  LET k == Len(df) - 5
  IN { [i \in 1..Len(df) |-> IF i <= k THEN df[p[i]] ELSE df[i]] : p \in Perms(1..k) }

OneRowPerTeam(rows) ==
  \A i, j \in 1..Len(rows) : rows[i]["TEAM_ID"] = rows[j]["TEAM_ID"] => i = j

PtsOf(rows, t) == rows[CHOOSE i \in 1..Len(rows) : rows[i]["TEAM_ID"] = t]["PTS"]

\* C3: over an aggregate with one row per team, the ranks are a permutation
\* of 1..N, the team ranked 1 allowed no more points than any other, and a
\* team that allowed strictly fewer points has a strictly smaller rank.
C3_RanksArePermutation ==
  (call.fn = "get_team_defense_rankings" /\ call.resp.ok /\ OneRowPerTeam(call.resp.rows)) =>
    LET rows == call.resp.rows
        N == Len(rows)
        rm == call.rank_map
    IN /\ DOMAIN rm = {rows[i]["TEAM_ID"] : i \in 1..N}
       /\ {rm[t] : t \in DOMAIN rm} = 1..N
       /\ \A t, u \in DOMAIN rm : rm[t] = rm[u] => t = u
       /\ \A t, u \in DOMAIN rm : (rm[t] = 1) => PtsOf(rows, t) <= PtsOf(rows, u)
       /\ \A t, u \in DOMAIN rm : PtsOf(rows, t) < PtsOf(rows, u) => rm[t] < rm[u]

\* a table of at least three teams with different totals, listed with the
\* best defence last, has been ranked
C3_Witness ==
  /\ call.fn = "get_team_defense_rankings"
  /\ call.resp.ok
  /\ Len(call.resp.rows) >= 3
  /\ call.resp.rows[1]["PTS"] > call.resp.rows[2]["PTS"]
  /\ call.resp.rows[2]["PTS"] > call.resp.rows[3]["PTS"]
  /\ call.rank_map[call.resp.rows[3]["TEAM_ID"]] = 1

\* C4: of two teams with equal points allowed, the one listed earlier in the
\* aggregate receives the smaller rank.
C4_TiesKeepInputOrder ==
  (call.fn = "get_team_defense_rankings" /\ call.resp.ok /\ OneRowPerTeam(call.resp.rows)) =>
    \A i, j \in 1..Len(call.resp.rows) :
      (i < j /\ call.resp.rows[i]["PTS"] = call.resp.rows[j]["PTS"]) =>
        call.rank_map[call.resp.rows[i]["TEAM_ID"]] < call.rank_map[call.resp.rows[j]["TEAM_ID"]]

\* the opponent of the last lookup was found on the board and has a rank in
\* the table
Resolved ==
  /\ call.fn = "matchup"
  /\ call.result.opp_id # <<>>
  /\ call.result.opp_id[1] \in DOMAIN call.defense_ranks

\* C5: a resolved opponent of rank r is HARD exactly when r <= 10, EASY
\* exactly when r >= 20 and NEUTRAL exactly when 11 <= r <= 19, whatever the
\* size of the table; the rank shown is the rank of the table.
C5_MatchupThresholds ==
  Resolved =>
    LET r == call.defense_ranks[call.result.opp_id[1]]
    IN /\ call.result.rank = <<r>>
       /\ call.result.opponent_rank_display = "vs"
       /\ (call.result.matchup_color = "matchup-hard") <=> (r <= 10)
       /\ (call.result.matchup_color = "matchup-easy") <=> (r >= 20)
       /\ (call.result.matchup_color = "matchup-mid") <=> (11 <= r /\ r <= 19)

\* an opponent of rank 10, the last HARD rank, has been classified
C5_Witness ==
  /\ Resolved
  /\ call.defense_ranks[call.result.opp_id[1]] = 10
  /\ call.result.matchup_color = "matchup-hard"

PlayerSelected == session_state.selected_player_id # <<>>
SelectedLog == stats_cache[session_state.selected_player_id[1]][1]
SelectedAnswer == fetched[session_state.selected_player_id[1]][1]

\* C2: in a run for a selected player, a feature row and a prediction are
\* produced if and only if the game log has at least 5 records; with fewer
\* (an empty or failed fetch included) the page is the insufficient-data
\* warning and nothing of a prediction is on it.
C2_PredictionIffFiveGames ==
  (PlayerSelected /\ page.view \in {"warning", "player"}) =>
    /\ (page.view = "player") <=> (Len(SelectedLog) >= 5)
    /\ (page.view = "warning") <=> (Len(SelectedLog) <= 4)
    /\ (~SelectedAnswer.ok \/ SelectedAnswer.rows = <<>>) => page.view = "warning"
    /\ Len(SelectedAnswer.rows) = 5 => page.view = "player"
    /\ page.view = "player" =>
         /\ page.preds.tag = "dict"
         /\ DOMAIN page.preds.feature_row = needed
         /\ page.preds = predict(models_cache[1], SelectedLog)

\* a player with exactly five games has been given a prediction
C2_Witness ==
  /\ PlayerSelected
  /\ Len(SelectedLog) = 5
  /\ page.view = "player"
  /\ page.preds.tag = "dict"

\* the board of the last run lists a game of the selected player's team
GameFound ==
  /\ page.board.ok
  /\ session_state.selected_player_team_id # <<>>
  /\ \E i \in 1..Len(page.board.games) :
       \/ page.board.games[i]["HOME_TEAM_ID"] = session_state.selected_player_team_id[1]
       \/ page.board.games[i]["VISITOR_TEAM_ID"] = session_state.selected_player_team_id[1]

\* C6: a classification with a rank is shown only when a game of the
\* player's team was found on the board and the opponent has a rank in the
\* ranking table, and the rank shown is that rank; otherwise the badge reads
\* Unknown.
C6_NeverGuesses ==
  page.view = "player" =>
    /\ page.matchup.opponent_rank_display # "Unknown" =>
         /\ GameFound
         /\ page.matchup.opp_id[1] \in DOMAIN ranks_cache[1]
         /\ page.matchup.rank = <<ranks_cache[1][page.matchup.opp_id[1]]>>
    /\ ~GameFound => page.matchup.opponent_rank_display = "Unknown"

TrainedCsv == trained_from[1]

C9_PartialResultIsNoError ==
  page.view = "player" =>
    /\ page.preds.tag = "dict"
    /\ DOMAIN page.preds.items = DOMAIN models_cache[1].items
    /\ page.error = "none"

\* C10: in every step, an existing model set and an existing ranking table
\* stay as they are, and the body of neither function has run more than once.
C10_BuiltOnceThenReadOnly ==
  [][ /\ models_cache # <<>> => models_cache' = models_cache
      /\ ranks_cache # <<>> => ranks_cache' = ranks_cache
      /\ train_calls' <= 1
      /\ rank_calls' <= 1
      /\ (models_cache' # <<>> /\ Truthy(models_cache'[1])) => (train_calls' = 1 /\ rank_calls' = 1)
    ]_vars

\* a team was selected, a roster player clicked, the date changed and a line
\* typed, all on the one model set and the one ranking table
C10_Witness ==
  /\ train_calls = 1
  /\ rank_calls = 1
  /\ page.view = "player"
  /\ session_state.selected_player_team_id # <<>>
  /\ selected_date # "2026-01-03"
  /\ line_input["PTS"] # <<>>

====
